---- MODULE Spec2Model ----
(***************************************************************************)
(* Model of SpineAnimationView (src/src/SpineAnimationView.js): the        *)
(* playback controller (startAnimation, stopAnimation, resetAnimation,     *)
(* pause, resume, setFramerate, resetAllAnimations, the completion and     *)
(* event handlers) and the presenter (tick, _present).                     *)
(*                                                                         *)
(* Encoding of JavaScript values:                                          *)
(*   - an optional option (undefined or a value) is a set: {} or {v};      *)
(*   - null / undefined objects are the record Null;                       *)
(*   - a callback is a string naming what the callback does when invoked:  *)
(*     "none" (no callback given), "noop", or a control method it calls.   *)
(***************************************************************************)
EXTENDS Integers, Sequences, FiniteSets, TLC

\* ---------------------------------------------------------------- bounds
\* Largest iteration count passed to startAnimation.
MaxIter == 2
\* Number of startAnimation requests (callback identities) ever created.
MaxReq == 2

\* ------------------------------------------------------ skeleton test data
Null == [null |-> TRUE]

\* Animations present in the skeleton data.
Animations == {"idle", "jump"}
\* Duration of every animation, in engine time units.
Duration == 2
\* Milliseconds in one engine time unit: a cycle lasts 1.5 s.
MsPerUnit == 750
\* Frame rates given to the duration query, 0 for the fallback included.
DurationRates == {0, 7, 60}
\* Tick deltas, in the unit that makes dt * 30 / frameRate an engine unit.
TickDts == {2}
\* Frame rates a caller passes (0 stands for a falsy argument).
FrameRates == {60}
\* Region attachments of the skeleton data (one image each).
Regions == {1, 2}

Region(k) == [kind |-> "region", id |-> k]
BoundingBox == [kind |-> "bbox", id |-> 0]
NoAttachment == [kind |-> "none", id |-> 0]

\* skeleton.drawOrder with each slot's attachment, for a pose of the skeleton.
DrawOrder(pose) ==
  IF pose = Null THEN << Region(1), Region(2), BoundingBox >>
  ELSE IF pose.name = "jump" /\ pose.time >= 1
    THEN << Region(2), BoundingBox, Region(1) >>
  ELSE IF pose.name = "idle" /\ pose.time >= 1
    THEN << Region(1), NoAttachment, BoundingBox >>
  ELSE << Region(1), Region(2), BoundingBox >>

\* ------------------------------------------------------------ JS helpers
\* a || d for an optional boolean a.
OrBool(a, d) == IF a = {TRUE} THEN TRUE ELSE d
\* a || d for an optional number a.
OrNum(a, d) == IF a # {} /\ a # {0} THEN CHOOSE x \in a : TRUE ELSE d

\* merge(base, extra): keys undefined in base are taken from extra.
MergeField(b, e) == IF b # {} THEN b ELSE e
merge(base, extra) ==
  [defaultAnimation |-> MergeField(base.defaultAnimation, extra.defaultAnimation),
   loop             |-> MergeField(base.loop, extra.loop),
   autoStart        |-> MergeField(base.autoStart, extra.autoStart),
   frameRate        |-> MergeField(base.frameRate, extra.frameRate)]

\* The option objects of the view (constructor opts and newOpts).
OptBool == {{}, {TRUE}, {FALSE}}
ViewOpts ==
  [defaultAnimation : {{}, {"idle"}},
   loop             : OptBool,
   autoStart        : OptBool,
   frameRate        : {{}} \cup {{f} : f \in FrameRates}]

\* The newOpts argument of resetAllAnimations explored.
NewOpts ==
  {o \in ViewOpts : o.frameRate = {}} \cup
  {o \in ViewOpts : o.defaultAnimation = {} /\ o.loop = {} /\ o.autoStart = {}}

\* The opts argument of startAnimation explored (Null: argument omitted):
\* requests without callbacks or with callbacks that return at once, with
\* every iterations option and with the loop option; and requests whose
\* completion callback calls a control method of the view.
Callbacks == {"none", "noop", "start", "stop", "pause"}
StartOptsOf(iterations, loop, callbacks) ==
  {[iterations |-> i, loop |-> l, callback |-> c,
    eventCallback |-> IF c = "noop" THEN "noop" ELSE "none"] :
     i \in iterations, l \in loop, c \in callbacks}
StartOpts ==
  {Null} \cup
  StartOptsOf({{}} \cup {{n} : n \in 0..MaxIter}, {{}}, {"none", "noop"}) \cup
  StartOptsOf({{}, {MaxIter}}, {{TRUE}}, {"none", "noop"}) \cup
  StartOptsOf({{}}, {{FALSE}}, {"noop"}) \cup
  StartOptsOf({{}}, {{}}, {"start", "stop", "pause"})

\* The calls of startAnimation explored.
StartCalls == ({"jump"} \X StartOpts) \cup {<< "missing", Null >>}

VARIABLES
  opts,                  \* this._opts
  state,                 \* this.state, track 0: Null or [name, loop, time]
  visible,               \* this.style.visible
  isPlaying,             \* this._isPlaying
  isOnDefault,           \* this._isOnDefault
  currentAnimationOpts,  \* this._currentAnimationOpts
  frameRate,             \* this.frameRate
  skeleton,              \* pose last applied to this.skeleton (Null: setup pose)
  rendererObjects,       \* this.rendererObjects: the style of each pool image
  orphans,               \* some image of a discarded pool is still shown
  reqs,                  \* history: number of startAnimation requests made
  fired,                 \* history: requests whose callback has been invoked
  abandoned,             \* history: requests with a callback replaced in flight
  lastOp                 \* history: the last operation and the calls it made

vars == << opts, state, visible, isPlaying, isOnDefault, currentAnimationOpts,
           frameRate, skeleton, rendererObjects, orphans, reqs, fired, abandoned,
           lastOp >>

\* The view as one record, so that methods compose as functions of it.
Cur ==
  [opts |-> opts, state |-> state, visible |-> visible, isPlaying |-> isPlaying,
   isOnDefault |-> isOnDefault, currentAnimationOpts |-> currentAnimationOpts,
   frameRate |-> frameRate, skeleton |-> skeleton,
   rendererObjects |-> rendererObjects, orphans |-> orphans, reqs |-> reqs,
   fired |-> fired, abandoned |-> abandoned, log |-> << >>]

Commit(s) ==
  /\ opts' = s.opts
  /\ state' = s.state
  /\ visible' = s.visible
  /\ isPlaying' = s.isPlaying
  /\ isOnDefault' = s.isOnDefault
  /\ currentAnimationOpts' = s.currentAnimationOpts
  /\ frameRate' = s.frameRate
  /\ skeleton' = s.skeleton
  /\ rendererObjects' = s.rendererObjects
  /\ orphans' = s.orphans
  /\ reqs' = s.reqs
  /\ fired' = s.fired
  /\ abandoned' = s.abandoned

\* F applied to v, with v computed once and for all before F runs: one
\* statement after another.
Then(v, F(_)) == CHOOSE r \in {F(x) : x \in {v}} : TRUE

\* History of the calls across the view's boundary during one operation:
\* "update" / "setAnimationByName" (view to engine), "onComplete" / "onEvent"
\* (engine to view), "callback" / "eventCallback" (view to the user callback
\* of request rid).
Logged(s, kind, rid, data) ==
  [s EXCEPT !.log = Append(@, [call |-> kind, rid |-> rid, data |-> data])]

\* ------------------------------------------------------------ the engine
\* state.setAnimationByName(0, name, loop): a fresh track entry at time 0.
setAnimationByName(s, name, loop) ==
  Logged([s EXCEPT !.state = [name |-> name, loop |-> loop, time |-> 0]],
         "setAnimationByName", 0, [name |-> name, loop |-> loop])

Min(a, b) == IF a < b THEN a ELSE b

\* ---------------------------------------------------- playback controller
\* Variant of startAnimation: a request in flight is kept, the new one dropped.
startAnimationKeepsOld(s, name, o) ==
  IF name \notin Animations THEN s
  ELSE
    LET loop == IF o # Null THEN OrBool(o.loop, FALSE) ELSE FALSE
        rid  == s.reqs + 1
        old  == s.currentAnimationOpts
        req  == [iterations    |-> IF o # Null THEN OrNum(o.iterations, 1) ELSE 1,
                 callback      |-> IF o # Null THEN o.callback ELSE "none",
                 eventCallback |-> IF o # Null THEN o.eventCallback ELSE "none",
                 loop          |-> loop,
                 animationName |-> name,
                 rid           |-> rid,
                 n             |-> IF o # Null THEN OrNum(o.iterations, 1) ELSE 1,
                 seen          |-> 0]
        s0   == IF old # Null /\ old.iterations > 0 /\ old.callback # "none"
                  THEN [s EXCEPT !.abandoned = @ \cup {old.rid}]
                  ELSE s
        s1   == setAnimationByName(s0, name, loop)
    IN [s1 EXCEPT !.visible = TRUE,
                  !.isPlaying = TRUE,
                  !.isOnDefault = FALSE,
                  !.currentAnimationOpts = IF old # Null THEN old ELSE req,
                  !.reqs = rid]

\* Variant of startAnimation: _isOnDefault is left as it was.
startAnimationOnDefault(s, name, o) ==
  IF name \notin Animations THEN s
  ELSE
    LET loop == IF o # Null THEN OrBool(o.loop, FALSE) ELSE FALSE
        rid  == s.reqs + 1
        old  == s.currentAnimationOpts
        req  == [iterations    |-> IF o # Null THEN OrNum(o.iterations, 1) ELSE 1,
                 callback      |-> IF o # Null THEN o.callback ELSE "none",
                 eventCallback |-> IF o # Null THEN o.eventCallback ELSE "none",
                 loop          |-> loop,
                 animationName |-> name,
                 rid           |-> rid,
                 n             |-> IF o # Null THEN OrNum(o.iterations, 1) ELSE 1,
                 seen          |-> 0]
        s0   == IF old # Null /\ old.iterations > 0 /\ old.callback # "none"
                  THEN [s EXCEPT !.abandoned = @ \cup {old.rid}]
                  ELSE s
        s1   == setAnimationByName(s0, name, loop)
    IN [s1 EXCEPT !.visible = TRUE,
                  !.isPlaying = TRUE,
                  !.currentAnimationOpts = req,
                  !.reqs = rid]

\* startAnimation(name, opts).  setAnimationByName throws for a name absent
\* from the skeleton data, before any field is assigned.
startAnimation(s, name, o) ==
  IF name \notin Animations THEN s
  ELSE
    LET loop == IF o # Null THEN OrBool(o.loop, FALSE) ELSE FALSE
        rid  == s.reqs + 1
        req  == IF o # Null
                  THEN [iterations    |-> OrNum(o.iterations, 1),
                        callback      |-> o.callback,
                        eventCallback |-> o.eventCallback,
                        loop          |-> loop,
                        animationName |-> name,
                        rid           |-> rid,
                        n             |-> OrNum(o.iterations, 1),
                        seen          |-> 0]
                  ELSE [iterations    |-> 1,
                        callback      |-> "none",
                        eventCallback |-> "none",
                        loop          |-> FALSE,
                        animationName |-> name,
                        rid           |-> rid,
                        n             |-> 1,
                        seen          |-> 0]
        old  == s.currentAnimationOpts
        s0   == IF old # Null /\ old.iterations > 0 /\ old.callback # "none"
                  THEN [s EXCEPT !.abandoned = @ \cup {old.rid}]
                  ELSE s
        s1   == setAnimationByName(s0, name, loop)
    IN [s1 EXCEPT !.visible = TRUE,
                  !.isPlaying = TRUE,
                  !.isOnDefault = FALSE,
                  !.currentAnimationOpts = req,
                  !.reqs = rid]

\* Variant of stopAnimation: the current request is not discarded.
stopAnimationKeepsRequest(s) ==
  [s EXCEPT !.isOnDefault = TRUE,
            !.visible = FALSE,
            !.isPlaying = FALSE]

\* Variant of stopAnimation: the view is left visible.
stopAnimationStaysVisible(s) ==
  [s EXCEPT !.isOnDefault = TRUE,
            !.isPlaying = FALSE,
            !.currentAnimationOpts = Null]

stopAnimation(s) ==
  [s EXCEPT !.isOnDefault = TRUE,
            !.visible = FALSE,
            !.isPlaying = FALSE,
            !.currentAnimationOpts = Null]

\* Variant of resetAnimation: without a default animation it only pauses.
resetAnimationPauses(s) ==
  IF s.opts.defaultAnimation # {}
    THEN LET d  == CHOOSE x \in s.opts.defaultAnimation : TRUE
             s1 == setAnimationByName(s, d, OrBool(s.opts.loop, TRUE))
         IN [s1 EXCEPT !.visible = TRUE,
                       !.isPlaying = TRUE,
                       !.isOnDefault = TRUE,
                       !.currentAnimationOpts = Null]
    ELSE [s EXCEPT !.isPlaying = FALSE, !.isOnDefault = TRUE,
                   !.currentAnimationOpts = Null]

resetAnimation(s) ==
  IF s.opts.defaultAnimation # {}
    THEN LET d  == CHOOSE x \in s.opts.defaultAnimation : TRUE
             s1 == setAnimationByName(s, d, OrBool(s.opts.loop, TRUE))
         IN [s1 EXCEPT !.visible = TRUE,
                       !.isPlaying = TRUE,
                       !.isOnDefault = TRUE,
                       !.currentAnimationOpts = Null]
    ELSE stopAnimation(s)

setFramerate(s, fps) == [s EXCEPT !.frameRate = IF fps # 0 THEN fps ELSE 30]

\* this.skeletonData.findAnimation(animationName): null for an unknown name.
findAnimation(name) ==
  IF name \in Animations THEN [duration |-> Duration] ELSE Null

\* Variant of getDuration: the result of the lookup is not tested.
getDurationNoCheck(s, name) ==
  [thrown |-> FALSE,
   whole  |-> (Duration * MsPerUnit * 30) \div s.frameRate,
   rest   |-> (Duration * MsPerUnit * 30) % s.frameRate]

\* Variant of getDuration: the duration is not scaled by the frame rate.
getDurationUnscaled(s, name) ==
  LET animation == findAnimation(name)
  IN IF animation = Null
       THEN [thrown |-> TRUE, whole |-> 0, rest |-> 0]
       ELSE [thrown |-> FALSE, whole |-> animation.duration * MsPerUnit,
             rest |-> 0]

\* getDuration(animationName): animation.duration * 1000 * (30 / frameRate),
\* as the exact quotient whole + rest / frameRate (no rounding is applied);
\* throws "Animation not found" for an unknown name.  Nothing is assigned.
getDuration(s, name) ==
  LET animation == findAnimation(name)
  IN IF animation = Null
       THEN [thrown |-> TRUE, whole |-> 0, rest |-> 0]
       ELSE [thrown |-> FALSE,
             whole  |-> (animation.duration * MsPerUnit * 30) \div s.frameRate,
             rest   |-> (animation.duration * MsPerUnit * 30) % s.frameRate]

pause(s) == [s EXCEPT !.isPlaying = FALSE]

\* Variant of resume: the view is shown too.
resumeShows(s) == [s EXCEPT !.isPlaying = TRUE, !.visible = TRUE]

resume(s) == [s EXCEPT !.isPlaying = TRUE]

\* The options of the request a "start" callback makes.
NestedOpts ==
  [iterations |-> {}, loop |-> {}, callback |-> "noop", eventCallback |-> "noop"]

\* History: a request with a callback that was started inside the completion
\* callback of request o is discarded by the reset that follows the callback.
Discarded(s, o) ==
  LET c == s.currentAnimationOpts
  IN IF c # Null /\ c.rid # o.rid /\ c.callback # "none"
       THEN [s EXCEPT !.abandoned = @ \cup {c.rid}]
       ELSE s

\* opts.callback && opts.callback(): the request's completion callback runs,
\* and may itself call a control method of the view.
InvokeCallback(s, req) ==
  IF req.callback = "none" THEN s
  ELSE
    LET s1 == Logged([s EXCEPT !.fired = @ \cup {req.rid}], "callback", req.rid,
                     [again |-> req.rid \in s.fired, seen |-> req.seen])
    IN CASE req.callback = "start" -> startAnimation(s1, "jump", NestedOpts)
         [] req.callback = "stop"  -> stopAnimation(s1)
         [] req.callback = "pause" -> pause(s1)
         [] OTHER                  -> s1

\* Variant of the completion handler: iterations < 0 instead of <= 0.
onCompleteLate(s) ==
  IF s.isOnDefault
    THEN IF s.opts.loop # {TRUE} THEN resetAnimation(s) ELSE s
  ELSE IF s.currentAnimationOpts # Null
    THEN LET o == s.currentAnimationOpts
         IN IF ~o.loop
              THEN LET o1 == [o EXCEPT !.iterations = @ - 1, !.seen = @ + 1]
                       s1 == [s EXCEPT !.currentAnimationOpts = o1]
                   IN IF o1.iterations < 0
                        THEN resetAnimation(Discarded(InvokeCallback(s1, o1), o1))
                        ELSE setAnimationByName(s1, o1.animationName, FALSE)
              ELSE s
  ELSE s

\* Variant of the completion handler: the iterations left are not counted
\* down.
onCompleteNoCount(s) ==
  IF s.isOnDefault
    THEN IF s.opts.loop # {TRUE} THEN resetAnimation(s) ELSE s
  ELSE IF s.currentAnimationOpts # Null
    THEN LET o == s.currentAnimationOpts
         IN IF ~o.loop
              THEN IF o.iterations <= 0
                     THEN resetAnimation(Discarded(InvokeCallback(s, o), o))
                     ELSE setAnimationByName(s, o.animationName, FALSE)
              ELSE s
  ELSE s

\* Variant of the completion handler: the view is reset only when the
\* request has no callback to call.
onCompleteCallbackOrReset(s) ==
  IF s.isOnDefault
    THEN IF s.opts.loop # {TRUE} THEN resetAnimation(s) ELSE s
  ELSE IF s.currentAnimationOpts # Null
    THEN LET o == s.currentAnimationOpts
         IN IF ~o.loop
              THEN LET o1 == [o EXCEPT !.iterations = @ - 1, !.seen = @ + 1]
                       s1 == [s EXCEPT !.currentAnimationOpts = o1]
                   IN IF o1.iterations <= 0
                        THEN IF o1.callback # "none"
                               THEN InvokeCallback(s1, o1)
                               ELSE resetAnimation(s1)
                        ELSE setAnimationByName(s1, o1.animationName, FALSE)
              ELSE s
  ELSE s

\* Variant of the completion handler: the request's loop flag is not tested.
onCompleteCountsLoops(s) ==
  IF s.isOnDefault
    THEN IF s.opts.loop # {TRUE} THEN resetAnimation(s) ELSE s
  ELSE IF s.currentAnimationOpts # Null
    THEN LET o  == s.currentAnimationOpts
             o1 == [o EXCEPT !.iterations = @ - 1, !.seen = @ + 1]
             s1 == [s EXCEPT !.currentAnimationOpts = o1]
         IN IF o1.iterations <= 0
              THEN resetAnimation(Discarded(InvokeCallback(s1, o1), o1))
              ELSE setAnimationByName(s1, o1.animationName, FALSE)
  ELSE s

\* this.state.onComplete = function (track, loopCount)
onComplete(s) ==
  IF s.isOnDefault
    THEN IF s.opts.loop # {TRUE} THEN resetAnimation(s) ELSE s
  ELSE IF s.currentAnimationOpts # Null
    THEN LET o == s.currentAnimationOpts
         IN IF ~o.loop
              THEN LET o1 == [o EXCEPT !.iterations = @ - 1, !.seen = @ + 1]
                       s1 == [s EXCEPT !.currentAnimationOpts = o1]
                   IN IF o1.iterations <= 0
                        THEN Then(Discarded(InvokeCallback(s1, o1), o1),
                                  resetAnimation)
                        ELSE setAnimationByName(s1, o1.animationName, FALSE)
              ELSE s
  ELSE s

\* Variant of the event handler: the callback is called without the payload.
onEventNoPayload(s, data) ==
  IF ~s.isOnDefault /\ s.currentAnimationOpts # Null
    THEN LET o == s.currentAnimationOpts
         IN IF o.eventCallback # "none"
              THEN Logged(s, "eventCallback", o.rid, [payload |-> "none"])
              ELSE s
    ELSE s

\* this.state.onEvent = function (track, data)
onEvent(s, data) ==
  IF ~s.isOnDefault /\ s.currentAnimationOpts # Null
    THEN LET o == s.currentAnimationOpts
         IN IF o.eventCallback # "none"
              THEN Logged(s, "eventCallback", o.rid, [payload |-> data])
              ELSE s
    ELSE s

\* ------------------------------------------------------------- presenter
SetMax(S) == CHOOSE x \in S : \A y \in S : y <= x

\* Variant of the presenter: the images are not hidden first.
presentNoHide(s) ==
  LET drawOrder == DrawOrder(s.skeleton)
      At(k) == {i \in 1..Len(drawOrder) :
                  drawOrder[i].kind = "region" /\ drawOrder[i].id = k}
  IN [s EXCEPT !.rendererObjects =
        [k \in DOMAIN s.rendererObjects |->
           IF At(k) # {}
             THEN [visible |-> TRUE, zIndex |-> SetMax(At(k)) - 1]
             ELSE s.rendererObjects[k]]]

\* _present(): hide every image of the pool, then show the image of each
\* region attachment of the draw order, with its index as zIndex.
present(s) ==
  LET drawOrder == DrawOrder(s.skeleton)
      At(k) == {i \in 1..Len(drawOrder) :
                  drawOrder[i].kind = "region" /\ drawOrder[i].id = k}
  IN [s EXCEPT !.rendererObjects =
        [k \in DOMAIN s.rendererObjects |->
           IF At(k) # {}
             THEN [visible |-> TRUE, zIndex |-> SetMax(At(k)) - 1]
             ELSE [s.rendererObjects[k] EXCEPT !.visible = FALSE]]]

\* state.update(delta); state.apply(skeleton): track 0 advances, the pose is
\* applied, a timeline event ev (if any) and then a completion are notified.
EngineUpdate(s, delta, ev) ==
  IF s.state = Null THEN s
  ELSE
    LET t    == s.state
        raw  == t.time + delta
        time == IF t.loop THEN raw % Duration ELSE Min(raw, Duration)
        complete == IF t.loop
                      THEN t.time % Duration > raw % Duration
                      ELSE t.time < Duration /\ raw >= Duration
        s1 == [s EXCEPT !.state.time = time,
                        !.skeleton = [name |-> t.name, time |-> time]]
        s2 == IF ev # "none"
                THEN onEvent(Logged(s1, "onEvent", 0, [payload |-> ev]), ev)
                ELSE s1
    IN IF complete
         THEN Then(Logged(s2, "onComplete", 0, [payload |-> "none"]),
                   onComplete)
         ELSE s2

\* dt * (0.001 * 30 / this.frameRate), in engine time units.
Delta(s, dt) == (dt * 30) \div s.frameRate

\* Variant of tick: the view's visibility is not tested.
tickWhenHidden(s, dt, ev) ==
  IF s.isPlaying
    THEN present(EngineUpdate(Logged(s, "update", 0, [delta |-> Delta(s, dt)]),
                              Delta(s, dt), ev))
    ELSE present(s)

\* tick(dt)
tick(s, dt, ev) ==
  IF s.isPlaying /\ s.visible
    THEN Then(EngineUpdate(Logged(s, "update", 0, [delta |-> Delta(s, dt)]),
                           Delta(s, dt), ev),
              present)
    ELSE present(s)

\* ----------------------------------------------------- (re)initialisation
\* resetAllAnimations(newOpts), with skeleton data supplied by the options.
resetAllAnimations(s, newOpts) ==
  LET o  == merge(newOpts, s.opts)
      s1 == [s EXCEPT
               !.orphans = @ \/ \E k \in DOMAIN s.rendererObjects :
                                      s.rendererObjects[k].visible,
               !.rendererObjects = [k \in Regions |->
                                      [visible |-> FALSE, zIndex |-> 0]],
               !.skeleton = Null,
               !.state = Null]
      s2 == IF o.defaultAnimation # {}
              THEN setAnimationByName(s1, CHOOSE x \in o.defaultAnimation : TRUE,
                                      OrBool(o.loop, TRUE))
              ELSE s1
  IN [s2 EXCEPT !.currentAnimationOpts = Null,
                !.isOnDefault = TRUE,
                !.isPlaying = OrBool(o.autoStart, FALSE),
                !.frameRate = OrNum(o.frameRate, 30)]

NoOpts == [defaultAnimation |-> {}, loop |-> {}, autoStart |-> {},
           frameRate |-> {}]

\* The view before init() runs resetAllAnimations: the constructor options
\* and the visibility the base View gives it.
Blank(o, v) ==
  [opts |-> o, state |-> Null, visible |-> v, isPlaying |-> FALSE,
   isOnDefault |-> FALSE, currentAnimationOpts |-> Null, frameRate |-> 30,
   skeleton |-> Null,
   rendererObjects |-> [k \in {} |-> [visible |-> FALSE, zIndex |-> 0]],
   orphans |-> FALSE, reqs |-> 0, fired |-> {}, abandoned |-> {},
   log |-> << >>]

\* Constructor options explored (the frame rate is left to its default).
CtorOpts ==
  {o \in ViewOpts : o.frameRate = {} /\ o.autoStart = {}} \cup
  {o \in ViewOpts : o.frameRate = {} /\ o.autoStart = {TRUE} /\ o.loop = {}}

Op(name, thrown, s) == [op |-> name, thrown |-> thrown, log |-> s.log]

\* init(opts): supr init, then this.resetAllAnimations().
Init ==
  \E o \in CtorOpts, v \in BOOLEAN :
    LET s == resetAllAnimations(Blank(o, v), NoOpts)
    IN /\ opts = s.opts /\ state = s.state /\ visible = s.visible
       /\ isPlaying = s.isPlaying /\ isOnDefault = s.isOnDefault
       /\ currentAnimationOpts = s.currentAnimationOpts
       /\ frameRate = s.frameRate /\ skeleton = s.skeleton
       /\ rendererObjects = s.rendererObjects /\ orphans = s.orphans
       /\ reqs = s.reqs /\ fired = s.fired /\ abandoned = s.abandoned
       /\ lastOp = Op("init", FALSE, s)

\* ---------------------------------------------------------------- actions
\* A request whose callback starts another animation needs a free identity
\* for that one too.
Room(o) == IF o # Null /\ o.callback = "start" THEN 2 ELSE 1

StartAnimationOp(name, o) ==
  /\ reqs + Room(o) <= MaxReq
  /\ LET s == startAnimation(Cur, name, o)
     IN Commit(s) /\ lastOp' = Op("startAnimation", name \notin Animations, s)

StartAnimation == \E c \in StartCalls : StartAnimationOp(c[1], c[2])

StopAnimation ==
  LET s == stopAnimation(Cur)
  IN Commit(s) /\ lastOp' = Op("stopAnimation", FALSE, s)

ResetAnimation ==
  LET s == resetAnimation(Cur)
  IN Commit(s) /\ lastOp' = Op("resetAnimation", FALSE, s)

SetFramerate ==
  \E fps \in FrameRates \cup {0} :
    LET s == setFramerate(Cur, fps)
    IN Commit(s) /\ lastOp' = Op("setFramerate", FALSE, s)

Pause ==
  LET s == pause(Cur)
  IN Commit(s) /\ lastOp' = Op("pause", FALSE, s)

Resume ==
  LET s == resume(Cur)
  IN Commit(s) /\ lastOp' = Op("resume", FALSE, s)

TickOp(dt, ev) ==
  \E c \in {Cur} : \E s \in {tick(c, dt, ev)} :
    Commit(s) /\ lastOp' = Op("tick", FALSE, s)

Tick == \E dt \in TickDts, ev \in {"none", "hit"} : TickOp(dt, ev)

ResetAllAnimationsOp(newOpts) ==
  LET s == resetAllAnimations(Cur, newOpts)
  IN Commit(s) /\ lastOp' = Op("resetAllAnimations", FALSE, s)

ResetAllAnimations == \E newOpts \in NewOpts : ResetAllAnimationsOp(newOpts)

\* getDuration(name) called from outside: the result is all that is left.
GetDurationOp(name) ==
  LET r == getDuration(Cur, name)
  IN /\ Commit(Cur)
     /\ lastOp' = [op |-> "getDuration", thrown |-> r.thrown,
                   log |-> IF r.thrown THEN << >>
                           ELSE << [call |-> "return", rid |-> 0,
                                    data |-> [whole |-> r.whole,
                                              rest |-> r.rest]] >>]

GetDuration == \E name \in Animations \cup {"missing"} : GetDurationOp(name)

SetFramerateD ==
  \E fps \in DurationRates :
    LET s == setFramerate(Cur, fps)
    IN Commit(s) /\ lastOp' = Op("setFramerate", FALSE, s)

ResetAllAnimationsD ==
  \E fps \in DurationRates \ {0} :
    ResetAllAnimationsOp([NoOpts EXCEPT !.frameRate = {fps}])

Next ==
  \/ StartAnimation
  \/ StopAnimation
  \/ ResetAnimation
  \/ SetFramerate
  \/ Pause
  \/ Resume
  \/ Tick
  \/ ResetAllAnimations

Spec == Init /\ [][Next]_vars

\* The view queried for durations between control calls, without ticks.
NextD ==
  \/ GetDuration
  \/ SetFramerateD
  \/ ResetAllAnimationsD
  \/ StartAnimation
  \/ StopAnimation

SpecD == Init /\ [][NextD]_vars

\* A request that ends by completions is in flight.
InFlight == ~isOnDefault /\ currentAnimationOpts # Null
            /\ ~currentAnimationOpts.loop

\* The view left alone while a non-looping request is in flight: no call of
\* startAnimation, stopAnimation or pause comes between its start and its
\* end (resume and setFramerate may), and the ticks keep coming.
NextL ==
  \/ Tick
  \/ ~InFlight /\ StartAnimation
  \/ ~InFlight /\ StopAnimation
  \/ ~InFlight /\ Pause
  \/ Resume
  \/ SetFramerate

\* The engine's frame loop calls tick on every frame: a tick that would
\* change the state is not put off for ever.
SpecL == Init /\ [][NextL]_vars /\ WF_vars(Tick)

TypeOK ==
  /\ opts \in ViewOpts
  /\ visible \in BOOLEAN /\ isPlaying \in BOOLEAN /\ isOnDefault \in BOOLEAN
  /\ frameRate \in FrameRates \cup {30}
  /\ DOMAIN rendererObjects = Regions
  /\ reqs \in 0..MaxReq
  /\ fired \subseteq 1..MaxReq
  /\ abandoned \subseteq 1..MaxReq

\* ------------------------------------------------------- playback states
Transient == ~isOnDefault /\ currentAnimationOpts # Null

Stopped == ~isPlaying /\ ~visible /\ currentAnimationOpts = Null

DefaultLoop ==
  /\ isOnDefault /\ currentAnimationOpts = Null /\ isPlaying /\ visible
  /\ opts.defaultAnimation # {}
  /\ state # Null /\ {state.name} = opts.defaultAnimation

\* The calls of one kind made by the last operation.
Calls(kind) == {i \in 1..Len(lastOp.log) : lastOp.log[i].call = kind}

UserCalls == Calls("callback") \cup Calls("eventCallback")

\* The fields of the view that a control method can change.
Playback(s) ==
  << s.isPlaying, s.isOnDefault, s.currentAnimationOpts, s.visible, s.state >>

\* ----------------------------------------------------------------- claims
\* C1: a non-looping request with iterations = N that is not abandoned has
\* its onComplete callback invoked on none of the first N-1 completion
\* notifications, each of which re-arms the same animation without loop, and
\* exactly once on the N-th, after which the state is DefaultLoop when a
\* default animation is configured and Stopped otherwise; no callback is
\* invoked a second time.
C1_Pending ==
  (currentAnimationOpts # Null /\ ~currentAnimationOpts.loop) =>
    /\ currentAnimationOpts.rid \notin fired
    /\ currentAnimationOpts.seen < currentAnimationOpts.n
    /\ currentAnimationOpts.iterations
         = currentAnimationOpts.n - currentAnimationOpts.seen

C1_Once ==
  \A i \in Calls("callback") : ~lastOp.log[i].data.again

C1_Step ==
  LET c == currentAnimationOpts
  IN (/\ c # Null /\ ~c.loop /\ ~isOnDefault
      /\ lastOp'.op = "tick"
      /\ \E i \in 1..Len(lastOp'.log) : lastOp'.log[i].call = "onComplete") =>
       IF c.seen + 1 < c.n
         THEN /\ \A i \in 1..Len(lastOp'.log) : lastOp'.log[i].call # "callback"
              /\ currentAnimationOpts'
                   = [c EXCEPT !.seen = @ + 1, !.iterations = @ - 1]
              /\ state' = [name |-> c.animationName, loop |-> FALSE, time |-> 0]
              /\ fired' = fired
         ELSE /\ c.callback # "none" =>
                   /\ Cardinality({i \in 1..Len(lastOp'.log) :
                                     lastOp'.log[i].call = "callback"}) = 1
                   /\ \A i \in 1..Len(lastOp'.log) :
                        lastOp'.log[i].call = "callback" =>
                          /\ lastOp'.log[i].rid = c.rid
                          /\ lastOp'.log[i].data.seen = c.n
                   /\ fired' = fired \cup {c.rid}
              /\ c.callback = "none" =>
                   /\ \A i \in 1..Len(lastOp'.log) :
                        lastOp'.log[i].call # "callback"
                   /\ fired' = fired
              /\ IF opts.defaultAnimation # {} THEN DefaultLoop' ELSE Stopped'

C1_CompleteAfterN == [](C1_Pending /\ C1_Once) /\ [][C1_Step]_vars

\* C1 witness: the callback of a request with N >= 2 has just been invoked,
\* on its N-th completion, and the view is back on its default state.
C1_Witness ==
  /\ lastOp.op = "tick"
  /\ \E i \in Calls("callback") : lastOp.log[i].data.seen >= 2
  /\ currentAnimationOpts = Null
  /\ (DefaultLoop \/ Stopped)

\* C2: once startAnimation has replaced a request in flight, the replaced
\* request's callback is never invoked and the request is never current
\* again; every user callback invoked belongs to the newest request.
C2_State ==
  /\ fired \cap abandoned = {}
  /\ currentAnimationOpts # Null =>
       /\ currentAnimationOpts.rid = reqs
       /\ currentAnimationOpts.rid \notin abandoned
  /\ \A i \in UserCalls : lastOp.log[i].rid \notin abandoned

C2_Step ==
  \A i \in 1..Len(lastOp'.log) :
    lastOp'.log[i].call \in {"callback", "eventCallback"} =>
      /\ currentAnimationOpts # Null
      /\ lastOp'.log[i].rid = currentAnimationOpts.rid
      /\ lastOp'.log[i].rid = reqs

C2_AbandonedNeverFires == [](C2_State) /\ [][C2_Step]_vars

\* C2 witness: request 1 was replaced in flight and never fired, while the
\* request that replaced it has completed and fired.
C2_Witness ==
  /\ 1 \in abandoned /\ 1 \notin fired
  /\ 2 \in fired
  /\ lastOp.op = "tick" /\ Calls("callback") # {}

\* C3: currentRequest is non-null only when isOnDefault is false.
C3_RequestOnlyOffDefault == currentAnimationOpts # Null => ~isOnDefault

\* C3 witness: a request is current (and the view is off its default).
C3_Witness ==
  /\ lastOp.op = "tick" /\ currentAnimationOpts # Null /\ ~isOnDefault
  /\ currentAnimationOpts.seen > 0

\* C4: from every reachable state stopAnimation() ends with isPlaying false,
\* the view hidden and no current request.
C4_StopPost ==
  LET s == stopAnimation(Cur)
  IN ~s.isPlaying /\ ~s.visible /\ s.currentAnimationOpts = Null

\* C4 witness: stopAnimation has just stopped a view that had played a request.
C4_Witness ==
  /\ lastOp.op = "stopAnimation" /\ reqs > 0 /\ state # Null
  /\ ~isPlaying /\ ~visible /\ currentAnimationOpts = Null

\* C5: without a default animation configured, resetAnimation() and
\* stopAnimation() lead from the same state to the same state.
C5_ResetIsStop ==
  opts.defaultAnimation = {} =>
    Playback(resetAnimation(Cur)) = Playback(stopAnimation(Cur))

\* C5 witness: resetAnimation has run without a default animation, on a view
\* that was showing a request.
C5_Witness ==
  /\ lastOp.op = "resetAnimation" /\ opts.defaultAnimation = {}
  /\ reqs > 0 /\ state # Null /\ ~visible /\ ~isPlaying

\* C6: from every reachable state a successful startAnimation(name, options)
\* leaves isOnDefault false, isPlaying true, the view visible and the current
\* request equal to the new one: the name, the iterations given (1 when not
\* given), the loop flag given (false when not given), the callbacks given,
\* and nothing of an earlier request.
C6_StartPost ==
  \A name \in Animations, o \in StartOpts :
    LET s == startAnimation(Cur, name, o)
        r == s.currentAnimationOpts
    IN /\ ~s.isOnDefault /\ s.isPlaying /\ s.visible
       /\ r # Null
       /\ r.animationName = name
       /\ s.state = [name |-> name, loop |-> r.loop, time |-> 0]
       /\ r.rid = reqs + 1 /\ r.seen = 0 /\ r.n = r.iterations
       /\ IF o = Null
            THEN /\ r.iterations = 1 /\ ~r.loop
                 /\ r.callback = "none" /\ r.eventCallback = "none"
            ELSE /\ o.iterations = {} => r.iterations = 1
                 /\ \A n \in o.iterations : n >= 1 => r.iterations = n
                 /\ r.iterations >= 1
                 /\ o.loop = {} => ~r.loop
                 /\ \A b \in o.loop : r.loop = b
                 /\ r.callback = o.callback
                 /\ r.eventCallback = o.eventCallback

\* A step of startAnimation that did not throw leaves what C6 says, with a
\* request newer than every earlier one, and the track armed at time 0.
C6_Step ==
  (lastOp'.op = "startAnimation" /\ ~lastOp'.thrown) =>
    /\ ~isOnDefault' /\ isPlaying' /\ visible'
    /\ currentAnimationOpts' # Null
    /\ currentAnimationOpts'.rid = reqs + 1 /\ reqs' = reqs + 1
    /\ currentAnimationOpts'.seen = 0
    /\ currentAnimationOpts'.iterations >= 1
    /\ state' = [name |-> currentAnimationOpts'.animationName,
                 loop |-> currentAnimationOpts'.loop, time |-> 0]

\* C6, in every reachable state and in every step of startAnimation.
C6_Start == [](C6_StartPost) /\ [][C6_Step]_vars

\* C6 witness: startAnimation has just replaced an earlier request.
C6_Witness ==
  /\ lastOp.op = "startAnimation" /\ ~lastOp.thrown
  /\ reqs = 2 /\ abandoned = {1}
  /\ Transient /\ isPlaying /\ visible
  /\ currentAnimationOpts.rid = 2

\* C7: pause() and resume() change isPlaying only, and resume() after pause()
\* restores a playing state exactly.
Others(s) ==
  << s.state, s.isOnDefault, s.currentAnimationOpts, s.visible, s.frameRate,
     s.skeleton, s.rendererObjects, s.opts >>

C7_PauseResumeFrame ==
  /\ Others(pause(Cur)) = Others(Cur) /\ ~pause(Cur).isPlaying
  /\ Others(resume(Cur)) = Others(Cur) /\ resume(Cur).isPlaying
  /\ isPlaying => resume(pause(Cur)) = Cur

\* C7 witness: resume has run on a view with a request part-way through its
\* iterations.
C7_Witness ==
  /\ lastOp.op = "resume" /\ isPlaying
  /\ currentAnimationOpts # Null
  /\ currentAnimationOpts.seen > 0 /\ currentAnimationOpts.iterations > 0

\* C8: a tick calls the engine's update exactly when isPlaying and the view
\* is visible; otherwise the track, the pose, the current request and the
\* playback flags are unchanged and no callback is invoked.  In both cases
\* the presenter runs: the pool images shown are those of the region
\* attachments in the draw order of the pose.
Shown(pose) ==
  {k \in Regions : \E i \in 1..Len(DrawOrder(pose)) : DrawOrder(pose)[i] = Region(k)}

C8_TickGate ==
  \A dt \in TickDts, ev \in {"none", "hit"} :
    LET s == tick(Cur, dt, ev)
        updated == \E i \in 1..Len(s.log) : s.log[i].call = "update"
    IN /\ updated <=> (isPlaying /\ visible)
       /\ ~(isPlaying /\ visible) =>
            /\ Playback(s) = Playback(Cur)
            /\ s.skeleton = skeleton
            /\ s.fired = fired
            /\ s.log = << >>
       /\ {k \in Regions : s.rendererObjects[k].visible} = Shown(s.skeleton)

\* C8 witness: a tick has run on a paused view with a request in flight; the
\* engine was not called and the pool images were redrawn.
C8_Witness ==
  /\ lastOp.op = "tick" /\ lastOp.log = << >>
  /\ ~isPlaying /\ visible /\ currentAnimationOpts # Null
  /\ skeleton # Null
  /\ \E k \in Regions : rendererObjects[k].visible

\* C9: whenever the default animation is armed (by the constructor, by
\* resetAnimation()) the engine gets the configured loop flag when it is
\* set, explicitly false included, and true when it is not set.
ConfiguredLoop(o) == IF o.loop = {} THEN TRUE ELSE CHOOSE b \in o.loop : TRUE

C9_DefaultLoopFlag ==
  opts.defaultAnimation # {} =>
    /\ lastOp.op = "init" => state.loop = ConfiguredLoop(opts)
    /\ resetAnimation(Cur).state.loop = ConfiguredLoop(opts)

\* C10: right after resetAllAnimations, from any state, there is no current
\* request; without autoStart the view is Stopped (not playing, hidden); with
\* autoStart and a default animation it is playing the default, visible.
C10_ResetAllPost ==
  \A newOpts \in NewOpts :
    LET o == merge(newOpts, opts)
        s == resetAllAnimations(Cur, newOpts)
    IN /\ s.currentAnimationOpts = Null
       /\ o.autoStart # {TRUE} => ~s.isPlaying /\ ~s.visible
       /\ (o.autoStart = {TRUE} /\ o.defaultAnimation # {}) =>
            /\ s.isOnDefault /\ s.isPlaying /\ s.visible
            /\ s.state # Null /\ {s.state.name} = o.defaultAnimation


\* C11: while a looping request is current, a completion notification changes
\* nothing: the request keeps its identity and its iteration count, the
\* engine is not re-armed, the view stays off its default and no callback is
\* invoked, however many notifications arrive.  The request stops being
\* current only in a step of startAnimation, stopAnimation, resetAnimation
\* or resetAllAnimations.
C11_State ==
  (Transient /\ currentAnimationOpts.loop) =>
    /\ onComplete(Cur) = Cur
    /\ onComplete(onComplete(Cur)) = Cur
    /\ state # Null /\ state.loop
    /\ state.name = currentAnimationOpts.animationName
    /\ \A dt \in TickDts, ev \in {"none", "hit"} :
         LET s == tick(Cur, dt, ev)
         IN /\ s.currentAnimationOpts = currentAnimationOpts
            /\ ~s.isOnDefault
            /\ s.isPlaying = isPlaying /\ s.visible = visible
            /\ s.state.name = state.name /\ s.state.loop
            /\ s.fired = fired
            /\ \A i \in 1..Len(s.log) :
                 s.log[i].call \notin {"callback", "setAnimationByName"}

C11_Step ==
  (/\ Transient /\ currentAnimationOpts.loop
   /\ currentAnimationOpts' # currentAnimationOpts) =>
     lastOp'.op \in {"startAnimation", "stopAnimation", "resetAnimation",
                     "resetAllAnimations"}

C11_LoopNeverCompletes == [](C11_State) /\ [][C11_Step]_vars

\* C11 witness: a tick has just delivered a completion notification to the
\* view while a looping request is current, and the request is still current.
C11_Witness ==
  /\ lastOp.op = "tick" /\ Calls("onComplete") # {}
  /\ Transient /\ currentAnimationOpts.loop
  /\ currentAnimationOpts.iterations = currentAnimationOpts.n

\* C12: an engine event is forwarded exactly once, with its payload, to the
\* event callback of the current request when the view is off its default
\* and that request has one; otherwise (on the default, stopped, or no event
\* callback) nothing is called.  The callback called is never that of a
\* replaced or discarded request, and the handler leaves the playback state
\* and every other field of the view as they were.
C12_Forward(s, ev) ==
  IF Transient /\ currentAnimationOpts.eventCallback # "none"
    THEN /\ Cardinality({i \in 1..Len(s.log) : s.log[i].call = "eventCallback"}) = 1
         /\ \A i \in 1..Len(s.log) :
              s.log[i].call = "eventCallback" =>
                /\ s.log[i].rid = currentAnimationOpts.rid
                /\ s.log[i].rid = reqs
                /\ s.log[i].rid \notin abandoned
                /\ s.log[i].data = [payload |-> ev]
                /\ i > 1 /\ s.log[i-1].call = "onEvent"
    ELSE \A i \in 1..Len(s.log) : s.log[i].call # "eventCallback"

C12_EventForwarding ==
  /\ LET s == onEvent(Logged(Cur, "onEvent", 0, [payload |-> "hit"]), "hit")
     IN /\ C12_Forward(s, "hit")
        /\ [s EXCEPT !.log = << >>] = Cur
  /\ \A dt \in TickDts :
       /\ \A i \in 1..Len(tick(Cur, dt, "none").log) :
            tick(Cur, dt, "none").log[i].call \notin {"onEvent", "eventCallback"}
       /\ LET s == tick(Cur, dt, "hit")
          IN IF \E i \in 1..Len(s.log) : s.log[i].call = "onEvent"
               THEN C12_Forward(s, "hit")
               ELSE \A i \in 1..Len(s.log) : s.log[i].call # "eventCallback"

\* C12 witness: a tick has delivered an event to the event callback of the
\* current request (the newest one) after an older request with callbacks
\* was replaced in flight.
C12_Witness ==
  /\ lastOp.op = "tick" /\ Calls("onEvent") # {} /\ Calls("eventCallback") # {}
  /\ abandoned # {}
  /\ \A i \in Calls("eventCallback") :
       lastOp.log[i].rid = reqs /\ lastOp.log[i].data.payload = "hit"

\* C13: startAnimation and getDuration with a name the skeleton data does
\* not have throw, whatever the state and the options, and the call that
\* threw leaves isPlaying, isOnDefault, the current request, the visibility
\* and the armed animation (and everything else in the view) as they were.
C13_State ==
  /\ getDuration(Cur, "missing").thrown
  /\ \A n \in Animations : ~getDuration(Cur, n).thrown
  /\ \A c \in StartCalls :
       c[1] \notin Animations => startAnimation(Cur, c[1], c[2]) = Cur
  /\ \A o \in StartOpts : startAnimation(Cur, "missing", o) = Cur
  /\ lastOp.op \in {"startAnimation", "getDuration"} \/ ~lastOp.thrown

C13_Step ==
  lastOp'.thrown =>
    UNCHANGED << opts, state, visible, isPlaying, isOnDefault,
                 currentAnimationOpts, frameRate, skeleton, rendererObjects,
                 orphans, reqs, fired, abandoned >>

C13_NotFound == [](C13_State) /\ [][C13_Step]_vars

\* C13 witness: getDuration has just thrown for an unknown name while a
\* request is in flight, which is still the current request.
C13_Witness ==
  /\ lastOp.op = "getDuration" /\ lastOp.thrown
  /\ Transient /\ isPlaying /\ visible
  /\ state # Null /\ state.name = currentAnimationOpts.animationName

\* C14 as stated: for every known animation getDuration returns a whole
\* number of milliseconds, the duration scaled by 1000 * 30 / frameRate.
C14_WholeMs ==
  \A n \in Animations :
    LET r == getDuration(Cur, n)
    IN /\ ~r.thrown
       /\ r.rest = 0
       /\ r.whole * frameRate = Duration * MsPerUnit * 30

\* C14, amended: for every known animation getDuration returns the duration
\* in milliseconds scaled by 30 / frameRate, unrounded: it is whole + rest /
\* frameRate with whole * frameRate + rest = 30000 * duration, which is a
\* whole number only when frameRate divides 30000 * duration (1500 at frame
\* rate 30); the call changes nothing in the view.
C14_State ==
  /\ frameRate > 0
  /\ \A n \in Animations :
       LET r == getDuration(Cur, n)
       IN /\ ~r.thrown
          /\ r.whole * frameRate + r.rest = Duration * MsPerUnit * 30
          /\ r.rest \in 0..(frameRate - 1)
          /\ frameRate = 30 => (r.whole = 1500 /\ r.rest = 0)

C14_Step ==
  lastOp'.op = "getDuration" =>
    /\ UNCHANGED << opts, state, visible, isPlaying, isOnDefault,
                    currentAnimationOpts, frameRate, skeleton,
                    rendererObjects, orphans, reqs, fired, abandoned >>
    /\ \A i \in 1..Len(lastOp'.log) :
         /\ lastOp'.log[i].call = "return"
         /\ \E n \in Animations :
              LET r == getDuration(Cur, n)
              IN lastOp'.log[i].data = [whole |-> r.whole, rest |-> r.rest]

C14_ScaledMs == [](C14_State) /\ [][C14_Step]_vars

\* C14 witness: getDuration has returned at frame rate 7 a value that is
\* not a whole number of milliseconds.
C14_Witness ==
  /\ lastOp.op = "getDuration" /\ ~lastOp.thrown
  /\ frameRate = 7
  /\ Len(lastOp.log) = 1 /\ lastOp.log[1].data.rest # 0

\* C15: in every state a tick has just left, whether or not the engine
\* advanced, an image of the current pool is visible exactly when a region
\* attachment in the draw order of the pose is its own; the zIndex of a
\* visible image is the (0-based) index of its entry, so of two entries the
\* later one has the larger zIndex.
C15_After(pool, pose) ==
  LET d == DrawOrder(pose)
      R == {i \in 1..Len(d) : d[i].kind = "region"}
  IN /\ \A k \in Regions :
          pool[k].visible <=> \E i \in R : d[i].id = k
     /\ \A i \in R :
          pool[d[i].id].visible /\ pool[d[i].id].zIndex = i - 1
     /\ \A i, j \in R :
          i < j => pool[d[i].id].zIndex < pool[d[j].id].zIndex

C15_DrawOrder ==
  lastOp.op = "tick" => C15_After(rendererObjects, skeleton)

\* C15 witness: a tick has just drawn a pose whose draw order lacks the
\* attachment of image 2, which an earlier frame had shown at index 1; the
\* image is hidden now and image 1 is visible.
C15_Witness ==
  /\ lastOp.op = "tick"
  /\ skeleton # Null /\ skeleton.name = "idle" /\ skeleton.time >= 1
  /\ ~rendererObjects[2].visible /\ rendererObjects[2].zIndex = 1
  /\ rendererObjects[1].visible /\ rendererObjects[1].zIndex = 0

\* C16: a tick that delivers a completion while the view is on its default
\* (no request) invokes no user callback; when the configured loop flag is
\* true or not set the completion re-arms nothing and leaves the playback
\* flags and the armed track as they were; when it is false the handler
\* calls resetAnimation(), which re-arms the default or stops the view.
C16_DefaultCompletion ==
  (isOnDefault /\ currentAnimationOpts = Null) =>
    \A dt \in TickDts, ev \in {"none", "hit"} :
      LET s == tick(Cur, dt, ev)
          Made(kind) == \E i \in 1..Len(s.log) : s.log[i].call = kind
      IN Made("onComplete") =>
           /\ ~Made("callback") /\ ~Made("eventCallback")
           /\ opts.loop # {FALSE} =>
                /\ ~Made("setAnimationByName")
                /\ s.isPlaying = isPlaying /\ s.visible = visible
                /\ s.isOnDefault /\ s.currentAnimationOpts = Null
                /\ s.state # Null
                /\ s.state.name = state.name /\ s.state.loop = state.loop
           /\ opts.loop = {FALSE} =>
                IF opts.defaultAnimation # {}
                  THEN Made("setAnimationByName") /\ s.isPlaying /\ s.visible
                  ELSE ~s.isPlaying /\ ~s.visible

\* C17: the options given to resetAllAnimations become the configuration:
\* a resetAnimation() that follows arms the animation resetAllAnimations
\* armed and leaves the view playing its default exactly when the options
\* given, completed by the earlier ones, name a default animation, and
\* stops the view otherwise.
C17_NewOptsConfigure ==
  \A newOpts \in NewOpts :
    LET o  == merge(newOpts, opts)
        s1 == resetAllAnimations(Cur, newOpts)
        s2 == resetAnimation(s1)
    IN IF o.defaultAnimation # {}
         THEN /\ s2.isOnDefault /\ s2.isPlaying /\ s2.visible
              /\ s2.currentAnimationOpts = Null
              /\ s1.state # Null /\ s2.state # Null
              /\ s2.state.name = s1.state.name
              /\ {s2.state.name} = o.defaultAnimation
         ELSE /\ ~s2.isPlaying /\ ~s2.visible
              /\ s2.currentAnimationOpts = Null

\* C18: a re-initialisation discards the previous pool: after
\* resetAllAnimations and one tick, from any state, no image created by an
\* earlier initialisation is still visible in the view, and none is in any
\* state a tick has just left.
C18_OldPoolGone ==
  /\ \A newOpts \in NewOpts, dt \in TickDts, ev \in {"none", "hit"} :
       ~tick(resetAllAnimations(Cur, newOpts), dt, ev).orphans
  /\ lastOp.op = "tick" => ~orphans

\* C19: when the completion callback of a request calls startAnimation,
\* stopAnimation or pause, the handler still ends with resetAnimation():
\* the tick that called the callback (once, for a request that had not
\* fired) leaves no current request and the view on its default, playing and
\* visible with the default armed when one is configured, hidden and not
\* playing otherwise; the last engine call of the tick is then the re-arming
\* of the default.  A request the callback started (the newest one) is
\* discarded by that reset, is never current in any state, and its own
\* callbacks are never invoked.
C19_CallbackThenReset ==
  /\ (lastOp.op = "tick" /\ Calls("callback") # {}) =>
       /\ Cardinality(Calls("callback")) = 1
       /\ \A i \in Calls("callback") :
            lastOp.log[i].rid \in fired /\ ~lastOp.log[i].data.again
       /\ currentAnimationOpts = Null /\ isOnDefault
       /\ IF opts.defaultAnimation # {} THEN DefaultLoop ELSE Stopped
       /\ opts.defaultAnimation # {} =>
            /\ lastOp.log[Len(lastOp.log)].call = "setAnimationByName"
            /\ {lastOp.log[Len(lastOp.log)].data.name} = opts.defaultAnimation
       /\ \A i \in Calls("callback"), j \in Calls("setAnimationByName") :
            (i < j /\ lastOp.log[j].data.name = "jump") =>
              /\ lastOp.log[i].rid = reqs - 1
              /\ reqs \in abandoned /\ reqs \notin fired
  /\ fired \cap abandoned = {}
  /\ currentAnimationOpts # Null => currentAnimationOpts.rid \notin abandoned

\* C19 witness: the callback of request 1 has started request 2 from inside
\* the completion handler; request 2 was discarded by the reset and has not
\* fired, and the view is back on its default with no request.
C19_Witness ==
  /\ lastOp.op = "tick" /\ Calls("callback") # {}
  /\ \E i \in Calls("setAnimationByName") :
       lastOp.log[i].data.name = "jump" /\ i < Len(lastOp.log)
  /\ reqs = 2 /\ fired = {1} /\ abandoned = {2}
  /\ currentAnimationOpts = Null /\ isOnDefault

\* C20: once a non-looping request is in flight, if ticks keep occurring and
\* no control method intervenes, the request ends: a tick eventually delivers
\* a completion that leaves no current request and the view on its default
\* (playing it when one is configured, stopped otherwise); and the step that
\* ends the request is that tick, which invokes the request's completion
\* callback, when it has one, exactly then.
C20_Ended ==
  /\ lastOp.op = "tick" /\ Calls("onComplete") # {}
  /\ currentAnimationOpts = Null /\ isOnDefault
  /\ IF opts.defaultAnimation # {} THEN DefaultLoop ELSE Stopped

C20_EndStep ==
  (InFlight /\ ~InFlight') =>
    /\ lastOp'.op = "tick"
    /\ \E i \in 1..Len(lastOp'.log) : lastOp'.log[i].call = "onComplete"
    /\ currentAnimationOpts.rid \notin fired
    /\ IF currentAnimationOpts.callback # "none"
         THEN /\ currentAnimationOpts.rid \in fired'
              /\ \E i \in 1..Len(lastOp'.log) :
                   /\ lastOp'.log[i].call = "callback"
                   /\ lastOp'.log[i].rid = currentAnimationOpts.rid
         ELSE fired' = fired

C20_Ends == (InFlight ~> C20_Ended) /\ [][C20_EndStep]_vars

\* C20 witness: a request of two iterations has ended on its second
\* completion, its callback has just been invoked by a tick and no request
\* is current.
C20_Witness ==
  /\ lastOp.op = "tick" /\ Calls("onComplete") # {}
  /\ \E i \in Calls("callback") :
       lastOp.log[i].data.seen = 2 /\ lastOp.log[i].rid \in fired
  /\ currentAnimationOpts = Null /\ isOnDefault
====
